---------------------------- MODULE Spec2Model ----------------------------
(***************************************************************************)
(* Model of the browser-session orchestration library: the serialized      *)
(* resource rotation layer (ProxyManager, FingerprintManager over a        *)
(* p-queue of concurrency 1), the Session and the SessionManager registry. *)
(*                                                                         *)
(* Scheduling is node's: one thread, an async function runs without        *)
(* interruption up to its next await, so each action below is the code     *)
(* between two awaits.  A file or store operation (fs.access, fs.readFile, *)
(* fs.writeFile, db.get, db.run) is one atomic step of the collaborator    *)
(* that either takes effect and resolves, or rejects without effect.       *)
(***************************************************************************)
EXTENDS Integers, Sequences, FiniteSets, TLC

(***************************************************************************)
(* Bounds of the model.                                                    *)
(***************************************************************************)
\* Largest proxy pool the initial proxy file holds.
MaxPool == 3
\* Number of readAndRotateProxy / fetchAndUpdateFingerprint calls made.
NumCalls == 3
\* Number of those calls that may be fetchAndUpdateFingerprint calls.
NumFetches == 2
\* Number of Session objects constructed; each owns its own ProxyManager
\* and its own FingerprintManager, m below names the owning Session.
NumSessions == 2

\* Largest number of records the fingerprint table holds.
MaxRecords == 2
\* The clock (Date.now(), in its own units) when the model starts; the
\* records of the initial table were stamped before it.
InitTime == 2
\* Number of times the clock is seen to advance.
MaxTicks == 1

\* Number of createSession / closeSession / getSession calls made.
NumTasks == 3
\* Number of session identifiers in use.
NumIds == 2
\* Number of config objects callers pass to createSession.
NumConfigs == 2

\* SessionActions calls made one after the other on one Session.
NumActionCalls == 1
\* Longest content of the input field.
MaxField == 4
\* The attempt caps of click, input and selectOption.
ClickAttempts == 5
InputAttempts == 10
SelectAttempts == 5

Calls == 1..NumCalls
Tasks == 1..NumTasks
IdNames == <<"s1", "s2", "s3", "s4">>
Ids == {IdNames[i] : i \in 1..NumIds}
Configs == 1..NumConfigs
Managers == 1..NumSessions
Kinds == {"proxy", "fp"}

ProxyNames == <<"a", "b", "c", "d", "e">>
Proxies == {ProxyNames[i] : i \in 1..MaxPool}
\* Characters a proxy file is made of: proxy names, blanks and line feeds.
SP == " "
LF == "\n"

(***************************************************************************)
(* Sequence helpers.                                                       *)
(***************************************************************************)
Range(s) == {s[i] : i \in 1..Len(s)}

IsDistinct(s) == \A i, j \in 1..Len(s) : i # j => s[i] # s[j]

Count(s, x) == Cardinality({i \in 1..Len(s) : s[i] = x})

IsPermutation(s, t) == /\ Len(s) = Len(t)
                       /\ \A x \in Range(s) \cup Range(t) : Count(s, x) = Count(t, x)

\* Position of the first line feed of text, 0 when there is none.
FirstLF(text) == IF \E i \in 1..Len(text) : text[i] = LF
                 THEN CHOOSE i \in 1..Len(text) : text[i] = LF /\ \A j \in 1..(i - 1) : text[j] # LF
                 ELSE 0

\* data.split('\n')
RECURSIVE Split(_)
Split(text) == LET lf == FirstLF(text)
               IN IF lf = 0
                  THEN <<text>>
                  ELSE <<SubSeq(text, 1, lf - 1)>> \o Split(SubSeq(text, lf + 1, Len(text)))

\* line.trim()
RECURSIVE Trim(_)
Trim(line) == IF line = <<>> THEN line
              ELSE IF Head(line) = SP THEN Trim(Tail(line))
              ELSE IF line[Len(line)] = SP THEN Trim(SubSeq(line, 1, Len(line) - 1))
              ELSE line

\* proxies.join('\n')
RECURSIVE Join(_)
Join(lines) == IF lines = <<>> THEN <<>>
               ELSE IF Len(lines) = 1 THEN lines[1]
               ELSE lines[1] \o <<LF>> \o Join(Tail(lines))

(***************************************************************************)
(* ProxyManager: the proxy file and its parsing and formatting.            *)
(***************************************************************************)
\* _readProxies: split on line feeds, trim each line, drop the empty ones.
ParseProxies(text) == LET lines == Split(text) IN SelectSeq([i \in 1..Len(lines) |-> Trim(lines[i])], LAMBDA l : Len(l) > 0)

\* _writeProxies: the lines joined by line feeds, and a final line feed.
FormatProxies(proxies) == Join(proxies) \o <<LF>>

\* A mutated rotation that hands out the head and does not put it back.
RotateDropsHead(proxies) == Tail(proxies)

\* A mutated rotation that hands out the tail element and puts it in front.
RotateFromTail(proxies) == <<proxies[Len(proxies)]>> \o SubSeq(proxies, 1, Len(proxies) - 1)

\* const rotatedProxy = proxies.shift(); proxies.push(rotatedProxy);
Rotate(proxies) == Tail(proxies) \o <<Head(proxies)>>

\* The value of proxies.shift(): the head of the array that was read.
Shifted(proxies) == Head(proxies)

VARIABLES
    proxyFileExists,   \* whether data/proxies.txt exists
    proxyFile,         \* its text, a sequence of characters
    pool0,             \* history: the pool the initial file holds
    nIssued,           \* number of rotator calls issued so far
    cKind,             \* per call: "proxy" or "fp"
    cMgr,              \* per call: the manager instance it was made on
    cPc,               \* per call: where its queued task stands
    cLocal,            \* per call: the local `proxies` array of the task
    cRot,              \* per call: the local `rotatedProxy` of the task
    cResult,           \* per call: what the returned promise settled with
    cOverlap,          \* history, per call: the calls in flight when it was issued
    pqQueue,           \* per manager <<m, kind>>: p-queue's waiting tasks, in order
    pqRunning,         \* per manager <<m, kind>>: the task it is running, 0 if none
    fpTable,           \* the rows of table fingerprint, in rowid order
    fp0,               \* history: the initial table
    now,               \* the value Date.now() returns
    cSel,              \* per call: result.value, the value db.get selected
    cStamp,            \* per call: the Date.now() passed to the UPDATE
    cRow,              \* history, per call: the rowid of the row db.get returned
    cBefore,           \* history, per call: usedAt of that row when selected
    addPc,             \* addFingerprint: where the (unqueued) call stands
    addValue,          \* addFingerprint: the JSON text to insert
    addStamp           \* addFingerprint: the Date.now() passed to the INSERT

\* The proxy file, the queues and the calls' common fields.
fileVars == <<proxyFileExists, proxyFile, pool0>>
queueVars == <<nIssued, cKind, cMgr, cPc, cResult, cOverlap, pqQueue, pqRunning>>
\* What only readAndRotateProxy tasks use.
proxyVars == <<fileVars, cLocal, cRot>>
\* What only the fingerprint store and its tasks use.
fpVars == <<fpTable, fp0, now, cSel, cStamp, cRow, cBefore, addPc, addValue, addStamp>>

rotVars == <<proxyVars, queueVars, fpVars>>

VARIABLES
    sessions,          \* SessionManager.sessions: id -> Session object, 0 if absent
    nSess,             \* number of Session objects constructed so far
    sId,               \* per Session object: this.sessionId
    sCfg,              \* per Session object: this.config, a reference to a config object
    sDriver,           \* per Session object: this.driver, "null" or "handle"
    sQuitReq,          \* per Session object: number of driver.quit() requests made
    sLog,              \* per Session object: what initialize did to Options and the plugin, in order
    config,            \* per config object: its headless, proxy and fingerprint fields
    nStarted,          \* number of SessionManager calls made so far
    tOp,               \* per call: "create", "close" or "get"
    tId,               \* per call: its sessionId argument
    tObj,              \* per call: the Session it constructed or looked up, 0 if none
    tPc,               \* per call: the await it is suspended at
    tCall,             \* per call: the rotator call it is awaiting, 0 if none
    tOut,              \* per call: how it ended
    tOverlap           \* history, per call: the calls in flight when it was made

sesVars == <<sessions, nSess, sId, sCfg, sDriver, sQuitReq, sLog, config, nStarted, tOp, tId, tObj, tPc, tCall, tOut, tOverlap>>

VARIABLES
    aOp,               \* the SessionActions call in progress or last made, "none" at first
    aPc,               \* the await it is suspended at, "idle" before the first call, "done" after one
    aOut,              \* how it ended, "pending" while it runs
    aType,             \* its selectorType argument
    aKeys,             \* its keys argument (input, emulateInput) or value argument (selectOption)
    aClear,            \* its clear argument (input)
    aAttempts,         \* the local `attempts` of click, input, selectOption
    aSent,             \* input: the characters of keys sent in the current attempt
    aWaits,            \* history: driver.wait calls it has issued
    aDriverUsed,       \* history: whether it has issued any call to the driver or the element
    aClicks,           \* history: element.click() calls it has issued
    aStops,            \* history: window.stop() scripts it has sent
    aTimedOut,         \* history: whether the timer of navigate fired first
    aLoadFailed,       \* history: whether driver.get rejected first
    nActions,          \* number of SessionActions calls made so far
    page,              \* the page load: "none", "loading", "loaded", "aborted"
    field,             \* content of the input element
    field0,            \* history: content of the input element when the call was made
    selected           \* the option of the select element that is selected, "" if none

actVars == <<aOp, aPc, aOut, aType, aKeys, aClear, aAttempts, aSent, aWaits, aDriverUsed, aClicks, aStops, aTimedOut, aLoadFailed, nActions, page, field, field0, selected>>

vars == <<rotVars, sesVars, actVars>>

\* Results a call can settle with besides a proxy or a fingerprint value.
Pending == <<"pending">>
Null == <<"null">>
Thrown == <<"thrown">>

\* The pool currently persisted, as _readProxies would load it.
PersistedPool == IF proxyFileExists THEN ParseProxies(proxyFile) ELSE <<>>

(***************************************************************************)
(* Initial proxy files: a pool of 0..MaxPool distinct proxies (the code    *)
(* never looks inside a proxy here, so one naming per size stands for all) *)
(* as this program writes it; the empty and the two-proxy pool also        *)
(* without the final line feed, the two-proxy pool also hand-edited with   *)
(* blanks and empty lines; or no file at all.                              *)
(***************************************************************************)
InitPools == {SubSeq(ProxyNames, 1, n) : n \in 0..MaxPool}

RECURSIVE Messy(_)
Messy(pool) == IF pool = <<>> THEN <<LF>>
               ELSE <<SP, Head(pool), SP, LF, LF>> \o Messy(Tail(pool))

InitFiles == {FormatProxies([i \in 1..Len(p) |-> <<p[i]>>]) : p \in InitPools}
             \cup {Join([i \in 1..Len(p) |-> <<p[i]>>]) : p \in {q \in InitPools : Len(q) \in {0, 2}}}
             \cup {Messy(p) : p \in {q \in InitPools : Len(q) = 2}}

(***************************************************************************)
(* FingerprintManager: the fingerprint table and the JSON conversions.     *)
(***************************************************************************)
FpNames == <<"f1", "f2", "f3", "f4">>

\* JSON.stringify(fingerprint): the text stored in column value.
JsonStringify(obj) == <<"{", obj, "}">>

\* Whether JSON.parse accepts the text.
JsonValid(text) == Len(text) = 3 /\ text[1] = "{" /\ text[3] = "}"

\* JSON.parse(text) of a valid text: the decoded object.
JsonParse(text) == <<"fingerprint", text[2]>>

\* A stored text JSON.parse rejects (a truncated document).
Malformed == <<"{", "f1">>

\* The rows with the smallest usedAt: ORDER BY usedAt ASC LIMIT 1 returns
\* one of them, the choice among equal stamps being SQLite's.
OldestRows(table) == {i \in 1..Len(table) : \A j \in 1..Len(table) : table[i].usedAt <= table[j].usedAt}

\* The rows db.get may return for the SELECT of fetchAndUpdateFingerprint.
Selectable(table) == OldestRows(table)

\* UPDATE fingerprint SET usedAt = stamp WHERE value = value.
UpdateUsedAt(table, value, stamp) == [i \in 1..Len(table) |-> IF table[i].value = value THEN [table[i] EXCEPT !.usedAt = stamp] ELSE table[i]]

\* Initial tables: 0..MaxRecords rows of distinct values, each stamped
\* before InitTime; the first row's text may be one JSON.parse rejects.
InitTables == UNION {{[i \in 1..n |-> [value |-> IF i = 1 /\ bad THEN Malformed ELSE JsonStringify(FpNames[i]), usedAt |-> st[i]]] : st \in [1..n -> 0..(InitTime - 1)], bad \in BOOLEAN} : n \in 0..MaxRecords}

InitFingerprints == /\ fpTable \in InitTables
                    /\ fp0 = fpTable
                    /\ now = InitTime
                    /\ cSel = [c \in Calls |-> <<>>]
                    /\ cStamp = [c \in Calls |-> 0]
                    /\ cRow = [c \in Calls |-> 0]
                    /\ cBefore = [c \in Calls |-> 0]
                    /\ addPc = "idle"
                    /\ addValue = <<>>
                    /\ addStamp = 0

\* The proxy file before the first call.
InitProxyFile == /\ proxyFileExists \in BOOLEAN
                 /\ proxyFile \in (IF proxyFileExists THEN InitFiles ELSE {<<>>})
                 /\ pool0 = PersistedPool

\* One fixed store, for the specifications that are not about it.
OneProxyFile == /\ proxyFileExists = TRUE
                /\ proxyFile = FormatProxies(<<>>)
                /\ pool0 = <<>>

OneFingerprintTable == /\ InitFingerprints
                       /\ fpTable = <<>>

\* No call made yet, every queue empty.
InitCalls == /\ nIssued = 0
             /\ cKind = [c \in Calls |-> "none"]
             /\ cMgr = [c \in Calls |-> 0]
             /\ cPc = [c \in Calls |-> "idle"]
             /\ cLocal = [c \in Calls |-> <<>>]
             /\ cRot = [c \in Calls |-> <<>>]
             /\ cResult = [c \in Calls |-> Pending]
             /\ cOverlap = [c \in Calls |-> {}]
             /\ pqQueue = [q \in Managers \X Kinds |-> <<>>]
             /\ pqRunning = [q \in Managers \X Kinds |-> 0]

\* Values of config.proxy and config.fingerprint that are not proxies or
\* fingerprints: the sentinels, and a field that is not set.
Default == <<"default">>
Database == <<"database">>
Fetch == <<"fetch">>
Undefined == <<"undefined">>

\* The config objects callers pass, in turn: the one of example(), one
\* asking for a fresh fingerprint, the one of simpleGitHubVisit(), {}.
ConfigShapes == <<[headless |-> TRUE, proxy |-> Database, fingerprint |-> Database], [headless |-> FALSE, proxy |-> Default, fingerprint |-> Fetch], [headless |-> FALSE, proxy |-> Default, fingerprint |-> Default], [headless |-> FALSE, proxy |-> Undefined, fingerprint |-> Undefined]>>

\* new SessionManager(): an empty registry; no call made yet.
InitManager == /\ sessions = [id \in Ids |-> 0]
               /\ nSess = 0
               /\ sId = [o \in Managers |-> ""]
               /\ sCfg = [o \in Managers |-> 0]
               /\ sDriver = [o \in Managers |-> "null"]
               /\ sQuitReq = [o \in Managers |-> 0]
               /\ sLog = [o \in Managers |-> <<>>]
               /\ config = [k \in Configs |-> ConfigShapes[((k - 1) % Len(ConfigShapes)) + 1]]
               /\ nStarted = 0
               /\ tOp = [t \in Tasks |-> "none"]
               /\ tId = [t \in Tasks |-> ""]
               /\ tObj = [t \in Tasks |-> 0]
               /\ tPc = [t \in Tasks |-> "idle"]
               /\ tCall = [t \in Tasks |-> 0]
               /\ tOut = [t \in Tasks |-> "pending"]
               /\ tOverlap = [t \in Tasks |-> {}]

\* new SessionActions(session): no call made yet; the page elements as
\* the page made them.
InitActionCalls == /\ aOp = "none"
                   /\ aPc = "idle"
                   /\ aOut = "pending"
                   /\ aType = ""
                   /\ aKeys = <<>>
                   /\ aClear = FALSE
                   /\ aAttempts = 0
                   /\ aSent = 0
                   /\ aWaits = 0
                   /\ aDriverUsed = FALSE
                   /\ aClicks = 0
                   /\ aStops = 0
                   /\ aTimedOut = FALSE
                   /\ aLoadFailed = FALSE
                   /\ nActions = 0
                   /\ page = "none"
                   /\ field0 = field
                   /\ selected = ""

NoActions == field = <<>> /\ InitActionCalls

InitProxy == InitCalls /\ InitProxyFile /\ OneFingerprintTable /\ InitManager /\ NoActions

InitFp == InitCalls /\ OneProxyFile /\ InitFingerprints /\ InitManager /\ NoActions

(***************************************************************************)
(* p-queue with concurrency 1.                                             *)
(***************************************************************************)
InFlight == {c \in Calls : cPc[c] \notin {"idle", "done"}}

\* A queue that starts every task at once, as concurrency: Infinity would.
CanRunNowUnbounded(q) == TRUE

\* new PQueue({ concurrency: 1 }): a task starts only when none is running.
CanRunNow(q) == pqRunning[q] = 0

\* The waiting task p-queue starts next: the oldest one.
NextQueued(q) == Head(pqQueue[q])

\* The first step a task of the given kind takes when p-queue starts it.
FirstPc(kind) == IF kind = "proxy" THEN "ensure" ELSE "open"

\* this.queue.add(task) on the manager of the given kind of Session m: the
\* task runs now, or waits in the queue.
Enqueue(c, kind, m) ==
    /\ cPc[c] = "idle"
    /\ c = nIssued + 1
    /\ nIssued' = nIssued + 1
    /\ cKind' = [cKind EXCEPT ![c] = kind]
    /\ cMgr' = [cMgr EXCEPT ![c] = m]
    /\ cOverlap' = [cOverlap EXCEPT ![c] = InFlight]
    /\ IF CanRunNow(<<m, kind>>)
       THEN /\ cPc' = [cPc EXCEPT ![c] = FirstPc(kind)]
            /\ pqRunning' = [pqRunning EXCEPT ![<<m, kind>>] = c]
            /\ pqQueue' = pqQueue
       ELSE /\ cPc' = [cPc EXCEPT ![c] = "queued"]
            /\ pqQueue' = [pqQueue EXCEPT ![<<m, kind>>] = Append(@, c)]
            /\ pqRunning' = pqRunning

\* A mutated queue that a rejected task never leaves: the slot is not
\* released and the waiting tasks are not started.
SettleHoldsOnThrow(c, r) ==
    LET q == <<cMgr[c], cKind[c]>>
    IN /\ cResult' = [cResult EXCEPT ![c] = r]
       /\ IF pqQueue[q] # <<>> /\ r # Thrown
          THEN /\ cPc' = [cPc EXCEPT ![c] = "done", ![NextQueued(q)] = FirstPc(cKind[NextQueued(q)])]
               /\ pqRunning' = [pqRunning EXCEPT ![q] = NextQueued(q)]
               /\ pqQueue' = [pqQueue EXCEPT ![q] = Tail(@)]
          ELSE /\ cPc' = [cPc EXCEPT ![c] = "done"]
               /\ pqRunning' = [pqRunning EXCEPT ![q] = IF @ = c /\ r # Thrown THEN 0 ELSE @]
               /\ pqQueue' = pqQueue

\* The task of call c settles with result r; p-queue starts the next one.
Settle(c, r) ==
    LET q == <<cMgr[c], cKind[c]>>
    IN /\ cResult' = [cResult EXCEPT ![c] = r]
       /\ IF pqQueue[q] # <<>>
          THEN /\ cPc' = [cPc EXCEPT ![c] = "done", ![NextQueued(q)] = FirstPc(cKind[NextQueued(q)])]
               /\ pqRunning' = [pqRunning EXCEPT ![q] = NextQueued(q)]
               /\ pqQueue' = [pqQueue EXCEPT ![q] = Tail(@)]
          ELSE /\ cPc' = [cPc EXCEPT ![c] = "done"]
               /\ pqRunning' = [pqRunning EXCEPT ![q] = IF @ = c THEN 0 ELSE @]
               /\ pqQueue' = pqQueue

(***************************************************************************)
(* ProxyManager.readAndRotateProxy, one action per await.                  *)
(***************************************************************************)
\* The managers constructed so far, and the one the next `new Session`
\* constructs: each Session object makes its own ProxyManager and
\* FingerprintManager, each with its own queue.
Constructed == {cMgr[c] : c \in 1..nIssued}

Constructible == {m \in Managers : m <= Cardinality(Constructed) + 1}

\* A caller calls readAndRotateProxy() on the ProxyManager of Session m.
RotateProxyCall(c, m) ==
    /\ m \in Constructible
    /\ Enqueue(c, "proxy", m)
    /\ UNCHANGED <<proxyVars, cResult, fpVars, sesVars, actVars>>

\* _ensureProxyFileExists: fs.access resolves, the file is there.
EnsureFound(c) ==
    /\ cPc[c] = "ensure"
    /\ proxyFileExists
    /\ cPc' = [cPc EXCEPT ![c] = "read"]
    /\ UNCHANGED <<proxyVars, nIssued, cKind, cMgr, cResult, cOverlap, pqQueue, pqRunning, fpVars, sesVars, actVars>>

\* _ensureProxyFileExists: fs.access rejects, the file is to be created.
EnsureMissing(c) ==
    /\ cPc[c] = "ensure"
    /\ ~proxyFileExists
    /\ cPc' = [cPc EXCEPT ![c] = "create"]
    /\ UNCHANGED <<proxyVars, nIssued, cKind, cMgr, cResult, cOverlap, pqQueue, pqRunning, fpVars, sesVars, actVars>>

\* _ensureProxyFileExists: fs.writeFile(path, '') resolves.
EnsureCreate(c) ==
    /\ cPc[c] = "create"
    /\ proxyFileExists' = TRUE
    /\ proxyFile' = <<>>
    /\ cPc' = [cPc EXCEPT ![c] = "read"]
    /\ UNCHANGED <<pool0, nIssued, cKind, cMgr, cLocal, cRot, cResult, cOverlap, pqQueue, pqRunning, fpVars, sesVars, actVars>>

\* _readProxies resolves: an empty pool returns null, otherwise the local
\* array is rotated and the write is requested.
ReadProxies(c) ==
    /\ cPc[c] = "read"
    /\ IF Len(PersistedPool) = 0
       THEN /\ Settle(c, Null)
            /\ UNCHANGED <<cLocal, cRot>>
       ELSE /\ cLocal' = [cLocal EXCEPT ![c] = Rotate(PersistedPool)]
            /\ cRot' = [cRot EXCEPT ![c] = Shifted(PersistedPool)]
            /\ cPc' = [cPc EXCEPT ![c] = "write"]
            /\ UNCHANGED <<cResult, pqQueue, pqRunning>>
    /\ UNCHANGED <<fileVars, nIssued, cKind, cMgr, cOverlap, fpVars, sesVars, actVars>>

\* _writeProxies resolves: the rotated array is persisted and the rotated
\* proxy returned.
WriteProxies(c) ==
    /\ cPc[c] = "write"
    /\ proxyFile' = FormatProxies(cLocal[c])
    /\ Settle(c, cRot[c])
    /\ UNCHANGED <<proxyFileExists, pool0, nIssued, cKind, cMgr, cLocal, cRot, cOverlap, fpVars, sesVars, actVars>>

\* A mutated persist step that has written the array without its last
\* element by the time it rejects.
RejectedPartly(file, data) == FormatProxies(SubSeq(data, 1, Len(data) - 1))

\* The file after a file operation on it rejected: as it was before (file
\* operations are taken as atomic); the data built in memory is dropped
\* with the task's local array.
Rejected(file, data) == file

\* A file operation of the task rejects: the catch block logs and rethrows.
ProxyIoError(c) ==
    /\ cPc[c] \in {"create", "read", "write"}
    /\ proxyFile' = Rejected(proxyFile, cLocal[c])
    /\ Settle(c, Thrown)
    /\ UNCHANGED <<proxyFileExists, pool0, cLocal, cRot, nIssued, cKind, cMgr, cOverlap, fpVars, sesVars, actVars>>

NextProxy ==
    \/ \E c \in Calls, m \in Managers : RotateProxyCall(c, m)
    \/ \E c \in Calls : EnsureFound(c)
    \/ \E c \in Calls : EnsureMissing(c)
    \/ \E c \in Calls : EnsureCreate(c)
    \/ \E c \in Calls : ReadProxies(c)
    \/ \E c \in Calls : WriteProxies(c)
    \/ \E c \in Calls : ProxyIoError(c)

SpecProxy == InitProxy /\ [][NextProxy]_vars

(***************************************************************************)
(* FingerprintManager.fetchAndUpdateFingerprint, one action per await, and *)
(* addFingerprint, which does not go through the queue.                    *)
(***************************************************************************)
\* A caller calls fetchAndUpdateFingerprint() on the manager of Session m.
FetchFingerprintCall(c, m) ==
    /\ m \in Constructible
    /\ c <= NumFetches
    /\ Enqueue(c, "fp", m)
    /\ UNCHANGED <<proxyVars, cResult, fpVars, sesVars, actVars>>

\* open({filename, driver}) resolves; db.get is requested.
FpOpen(c) ==
    /\ cPc[c] = "open"
    /\ cPc' = [cPc EXCEPT ![c] = "select"]
    /\ UNCHANGED <<proxyVars, nIssued, cKind, cMgr, cResult, cOverlap, pqQueue, pqRunning, fpVars, sesVars, actVars>>

\* db.get resolves: no row returns null; otherwise db.run is requested
\* with the arguments [Date.now(), result.value] evaluated now.
FpSelect(c) ==
    /\ cPc[c] = "select"
    /\ IF fpTable = <<>>
       THEN /\ Settle(c, Null)
            /\ UNCHANGED <<cSel, cStamp, cRow, cBefore>>
       ELSE /\ \E i \in Selectable(fpTable) :
                /\ cSel' = [cSel EXCEPT ![c] = fpTable[i].value]
                /\ cRow' = [cRow EXCEPT ![c] = i]
                /\ cBefore' = [cBefore EXCEPT ![c] = fpTable[i].usedAt]
            /\ cStamp' = [cStamp EXCEPT ![c] = now]
            /\ cPc' = [cPc EXCEPT ![c] = "update"]
            /\ UNCHANGED <<cResult, pqQueue, pqRunning>>
    /\ UNCHANGED <<proxyVars, nIssued, cKind, cMgr, cOverlap, fpTable, fp0, now, addPc, addValue, addStamp, sesVars, actVars>>

\* db.run resolves: the UPDATE has been applied; JSON.parse(result.value)
\* is returned, or throws on a text that is not JSON.
FpUpdate(c) ==
    /\ cPc[c] = "update"
    /\ fpTable' = UpdateUsedAt(fpTable, cSel[c], cStamp[c])
    /\ Settle(c, IF JsonValid(cSel[c]) THEN JsonParse(cSel[c]) ELSE Thrown)
    /\ UNCHANGED <<proxyVars, nIssued, cKind, cMgr, cOverlap, fp0, now, cSel, cStamp, cRow, cBefore, addPc, addValue, addStamp, sesVars, actVars>>

\* open, db.get or db.run rejects: the catch block logs and rethrows.
FpDbError(c) ==
    /\ cPc[c] \in {"open", "select", "update"}
    /\ Settle(c, Thrown)
    /\ UNCHANGED <<proxyVars, nIssued, cKind, cMgr, cOverlap, fpVars, sesVars, actVars>>

\* addFingerprint(fingerprint) is called: open is requested.
AddFingerprintCall(obj) ==
    /\ addPc = "idle"
    /\ Len(fpTable) < MaxRecords
    /\ addPc' = "open"
    /\ addValue' = JsonStringify(obj)
    /\ UNCHANGED <<proxyVars, queueVars, fpTable, fp0, now, cSel, cStamp, cRow, cBefore, addStamp, sesVars, actVars>>

\* open resolves: db.run is requested with [JSON text, Date.now()].
AddOpen ==
    /\ addPc = "open"
    /\ addPc' = "insert"
    /\ addStamp' = now
    /\ UNCHANGED <<proxyVars, queueVars, fpTable, fp0, now, cSel, cStamp, cRow, cBefore, addValue, sesVars, actVars>>

\* db.run resolves: the row has been inserted.
AddInsert ==
    /\ addPc = "insert"
    /\ fpTable' = Append(fpTable, [value |-> addValue, usedAt |-> addStamp])
    /\ addPc' = "idle"
    /\ addValue' = <<>>
    /\ addStamp' = 0
    /\ UNCHANGED <<proxyVars, queueVars, fp0, now, cSel, cStamp, cRow, cBefore, sesVars, actVars>>

\* open or db.run of addFingerprint rejects: the call rejects.
AddDbError ==
    /\ addPc \in {"open", "insert"}
    /\ addPc' = "idle"
    /\ addValue' = <<>>
    /\ addStamp' = 0
    /\ UNCHANGED <<proxyVars, queueVars, fpTable, fp0, now, cSel, cStamp, cRow, cBefore, sesVars, actVars>>

\* The clock advances: the next Date.now() returns a later value.  Two
\* reads of Date.now() with no Tick between them return the same value.
Tick ==
    /\ now < InitTime + MaxTicks
    /\ now' = now + 1
    /\ UNCHANGED <<proxyVars, queueVars, fpTable, fp0, cSel, cStamp, cRow, cBefore, addPc, addValue, addStamp, sesVars, actVars>>

NextFp ==
    \/ \E c \in Calls, m \in Managers : FetchFingerprintCall(c, m)
    \/ \E c \in Calls : FpOpen(c)
    \/ \E c \in Calls : FpSelect(c)
    \/ \E c \in Calls : FpUpdate(c)
    \/ \E c \in Calls : FpDbError(c)
    \/ \E i \in 1..MaxRecords : AddFingerprintCall(FpNames[i])
    \/ AddOpen
    \/ AddInsert
    \/ AddDbError
    \/ Tick

SpecFp == InitFp /\ [][NextFp]_vars

(***************************************************************************)
(* Both rotators together, with every file and database operation that    *)
(* was requested completing: it resolves or it rejects.                    *)
(***************************************************************************)
\* The stores: the proxy file is missing or holds two proxies; the table
\* is empty or holds a row that is not JSON and one that is.
InitRotators ==
    /\ InitCalls /\ InitManager /\ NoActions
    /\ proxyFileExists \in BOOLEAN
    /\ proxyFile = (IF proxyFileExists THEN FormatProxies(<<<<"a">>, <<"b">>>>) ELSE <<>>)
    /\ pool0 = PersistedPool
    /\ InitFingerprints
    /\ fpTable \in {<<>>, <<[value |-> Malformed, usedAt |-> 0], [value |-> JsonStringify(FpNames[2]), usedAt |-> 1]>>}

\* The file operation call c awaits completes.
ProxyStep(c) == EnsureFound(c) \/ EnsureMissing(c) \/ EnsureCreate(c) \/ ReadProxies(c) \/ WriteProxies(c) \/ ProxyIoError(c)

\* The database operation call c awaits completes.
FetchStep(c) == FpOpen(c) \/ FpSelect(c) \/ FpUpdate(c) \/ FpDbError(c)

NextRotators ==
    \/ \E c \in Calls, m \in Managers : RotateProxyCall(c, m)
    \/ \E c \in Calls, m \in Managers : FetchFingerprintCall(c, m)
    \/ \E c \in Calls : ProxyStep(c)
    \/ \E c \in Calls : FetchStep(c)

SpecRotatorsFair ==
    /\ InitRotators /\ [][NextRotators]_vars
    /\ \A c \in Calls : WF_vars(ProxyStep(c) \/ FetchStep(c))

(***************************************************************************)
(* SessionManager and Session, one action per await.  A createSession     *)
(* call constructs a Session (and with it a ProxyManager and a             *)
(* FingerprintManager), runs Session.initialize and registers the result.  *)
(***************************************************************************)
TasksInFlight == {t \in Tasks : tPc[t] \notin {"idle", "done"}}

\* A caller makes call t of the given operation on the SessionManager.
StartTask(t, op, id) ==
    /\ tPc[t] = "idle"
    /\ t = nStarted + 1
    /\ nStarted' = nStarted + 1
    /\ tOp' = [tOp EXCEPT ![t] = op]
    /\ tId' = [tId EXCEPT ![t] = id]
    /\ tOverlap' = [tOverlap EXCEPT ![t] = TasksInFlight]

\* Call t ends with the given outcome.
Finish(t, out) ==
    /\ tPc' = [tPc EXCEPT ![t] = "done"]
    /\ tOut' = [tOut EXCEPT ![t] = out]

\* A mutated check that never finds the id.
IsRegisteredNever(id) == FALSE

\* this.sessions.has(sessionId) / this.sessions.get(sessionId) is defined.
IsRegistered(id) == sessions[id] # 0

\* A mutated registration that happens as soon as the Session is built.
RegisteredEarly(id, o) == [sessions EXCEPT ![id] = o]

\* The registry when createSession constructs the Session: unchanged, the
\* entry is set only after initialize has resolved.
RegistryAtConstruct(id, o) == sessions

\* A mutated delete that leaves the entry in place.
DeletedNot(reg, id) == reg

\* this.sessions.delete(sessionId)
Deleted(reg, id) == [reg EXCEPT ![id] = 0]

\* getSession(sessionId): the registered pair, or the error it throws.
GetSession(reg, id) == IF reg[id] = 0 THEN "SessionNotFound" ELSE "ok"

\* A value that passes `if (value)`.
Truthy(v) == v \notin {Undefined, Null}

\* config.proxy.match(/^(.*?):(.*)@/): a colon with an at sign after it.
HasAuth(proxy) == \E i, j \in 1..Len(proxy) : i < j /\ proxy[i] = ":" /\ proxy[j] = "@"

\* createSession(sessionId, config): the check, and up to the first await
\* of initialize (new Session, setServiceKey, getProfilePath requested).
CreateSessionCall(t, id, k) ==
    /\ StartTask(t, "create", id)
    /\ IF IsRegistered(id)
       THEN /\ Finish(t, "SessionAlreadyExists")
            /\ UNCHANGED <<sessions, nSess, sId, sCfg, tObj>>
       ELSE /\ nSess < NumSessions
            /\ nSess' = nSess + 1
            /\ sId' = [sId EXCEPT ![nSess + 1] = id]
            /\ sCfg' = [sCfg EXCEPT ![nSess + 1] = k]
            /\ tObj' = [tObj EXCEPT ![t] = nSess + 1]
            /\ tPc' = [tPc EXCEPT ![t] = "profile"]
            /\ sessions' = RegistryAtConstruct(id, nSess + 1)
            /\ tOut' = tOut
    /\ UNCHANGED <<actVars, rotVars, sDriver, sQuitReq, sLog, config, tCall>>

\* The entries of a Session's log: arguments added to Options, calls
\* requested of the plugin.
Logged(o, events) == [sLog EXCEPT ![o] = events]

\* configureOptions up to the proxy block: the user-data-dir argument,
\* then --headless if config.headless.
OptionsHead(cfg) == <<"userDataDir">> \o (IF cfg.headless THEN <<"headless">> ELSE <<>>)

\* A mutated match that tolerates null, as config.proxy?.match would.
MatchThrowsNever(proxy) == FALSE

\* config.proxy.match(...) throws a TypeError when config.proxy is null.
MatchThrows(proxy) == proxy = Null

\* A mutated failure path that leaves a handle in this.driver.
DriverOnRejectAssigned(o) == [sDriver EXCEPT ![o] = "handle"]

\* this.driver when an await of initialize rejects: the assignment of
\* `this.driver = await plugin.launch(...)` is not reached.
DriverOnReject(o) == sDriver

\* configureOptions from the fingerprint block on, up to its next await:
\* plugin.fetch, fetchAndUpdateFingerprint, plugin.useFingerprint, or, with
\* no fingerprint to apply, plugin.launch.  `log` is the Session's log up
\* to the block.
FingerprintBlock(t, log) ==
    LET o == tObj[t]
        fp == config[sCfg[o]].fingerprint
    IN IF Truthy(fp) /\ fp # Default /\ fp = Database
       THEN /\ nIssued < NumCalls
            /\ Enqueue(nIssued + 1, "fp", o)
            /\ cResult' = cResult
            /\ tCall' = [tCall EXCEPT ![t] = nIssued + 1]
            /\ tPc' = [tPc EXCEPT ![t] = "fetching"]
            /\ sLog' = Logged(o, log)
       ELSE /\ tPc' = [tPc EXCEPT ![t] = IF ~(Truthy(fp) /\ fp # Default) THEN "launch" ELSE IF fp = Fetch THEN "pluginFetch" ELSE "useFingerprint"]
            /\ sLog' = Logged(o, log \o <<IF ~(Truthy(fp) /\ fp # Default) THEN "launch" ELSE IF fp = Fetch THEN "pluginFetch" ELSE "useFingerprint">>)
            /\ UNCHANGED <<queueVars, tCall>>

\* getProfilePath resolves: configureOptions runs up to its first await.
ProfileResolved(t) ==
    LET o == tObj[t]
        px == config[sCfg[o]].proxy
        head == OptionsHead(config[sCfg[o]])
    IN /\ tOp[t] = "create" /\ tPc[t] = "profile"
       /\ IF Truthy(px) /\ px # Default
          THEN IF px = Database
               THEN /\ nIssued < NumCalls
                    /\ Enqueue(nIssued + 1, "proxy", o)
                    /\ cResult' = cResult
                    /\ tCall' = [tCall EXCEPT ![t] = nIssued + 1]
                    /\ tPc' = [tPc EXCEPT ![t] = "rotating"]
                    /\ sLog' = Logged(o, head)
               ELSE IF HasAuth(px)
                    THEN /\ tPc' = [tPc EXCEPT ![t] = "useProxy"]
                         /\ sLog' = Logged(o, head \o <<"useProxy">>)
                         /\ UNCHANGED <<queueVars, tCall>>
                    ELSE FingerprintBlock(t, head \o <<"proxyServer">>)
          ELSE FingerprintBlock(t, head)
       /\ UNCHANGED <<actVars, proxyVars, fpVars, sessions, nSess, sId, sCfg, sDriver, sQuitReq, config, nStarted, tOp, tId, tObj, tOut, tOverlap>>

\* readAndRotateProxy settles: a rejection fails initialize; otherwise
\* the result is stored into config.proxy (null included) and matched.
ProxyRotated(t) ==
    LET o == tObj[t]
        r == cResult[tCall[t]]
    IN /\ tOp[t] = "create" /\ tPc[t] = "rotating"
       /\ cPc[tCall[t]] = "done"
       /\ config' = IF r = Thrown THEN config ELSE [config EXCEPT ![sCfg[o]].proxy = r]
       /\ IF r = Thrown \/ MatchThrows(r)
          THEN /\ Finish(t, "CreateFailed")
               /\ sDriver' = DriverOnReject(o)
               /\ UNCHANGED <<queueVars, tCall, sLog>>
          ELSE /\ tOut' = tOut
               /\ sDriver' = sDriver
               /\ IF HasAuth(r)
                  THEN /\ tPc' = [tPc EXCEPT ![t] = "useProxy"]
                       /\ sLog' = Logged(o, sLog[o] \o <<"useProxy">>)
                       /\ UNCHANGED <<queueVars, tCall>>
                  ELSE FingerprintBlock(t, sLog[o] \o <<"proxyServer">>)
       /\ UNCHANGED <<actVars, proxyVars, fpVars, sessions, nSess, sId, sCfg, sQuitReq, nStarted, tOp, tId, tObj, tOverlap>>

\* plugin.useProxy resolves.
UseProxyResolved(t) ==
    /\ tOp[t] = "create" /\ tPc[t] = "useProxy"
    /\ FingerprintBlock(t, sLog[tObj[t]])
    /\ UNCHANGED <<actVars, proxyVars, fpVars, sessions, nSess, sId, sCfg, sDriver, sQuitReq, config, nStarted, tOp, tId, tObj, tOut, tOverlap>>

\* plugin.fetch resolves: plugin.useFingerprint is requested.
PluginFetchResolved(t) ==
    /\ tOp[t] = "create" /\ tPc[t] = "pluginFetch"
    /\ tPc' = [tPc EXCEPT ![t] = "useFingerprint"]
    /\ sLog' = Logged(tObj[t], sLog[tObj[t]] \o <<"useFingerprint">>)
    /\ UNCHANGED <<actVars, rotVars, sessions, nSess, sId, sCfg, sDriver, sQuitReq, config, nStarted, tOp, tId, tObj, tCall, tOut, tOverlap>>

\* fetchAndUpdateFingerprint settles: a rejection fails initialize;
\* otherwise JSON.stringify of the result (null included) is passed to
\* plugin.useFingerprint.
FingerprintFetched(t) ==
    /\ tOp[t] = "create" /\ tPc[t] = "fetching"
    /\ cPc[tCall[t]] = "done"
    /\ IF cResult[tCall[t]] = Thrown
       THEN /\ Finish(t, "CreateFailed")
            /\ sDriver' = DriverOnReject(tObj[t])
            /\ sLog' = sLog
       ELSE /\ tPc' = [tPc EXCEPT ![t] = "useFingerprint"]
            /\ sLog' = Logged(tObj[t], sLog[tObj[t]] \o <<"useFingerprint">>)
            /\ sDriver' = sDriver
            /\ tOut' = tOut
    /\ UNCHANGED <<actVars, rotVars, sessions, nSess, sId, sCfg, sQuitReq, config, nStarted, tOp, tId, tObj, tCall, tOverlap>>

\* plugin.useFingerprint resolves: configureOptions returns the options
\* and plugin.launch is requested.
UseFingerprintResolved(t) ==
    /\ tOp[t] = "create" /\ tPc[t] = "useFingerprint"
    /\ tPc' = [tPc EXCEPT ![t] = "launch"]
    /\ sLog' = Logged(tObj[t], sLog[tObj[t]] \o <<"launch">>)
    /\ UNCHANGED <<actVars, rotVars, sessions, nSess, sId, sCfg, sDriver, sQuitReq, config, nStarted, tOp, tId, tObj, tCall, tOut, tOverlap>>

\* plugin.launch resolves: the driver is set, the pair is registered and
\* returned.
LaunchResolved(t) ==
    /\ tOp[t] = "create" /\ tPc[t] = "launch"
    /\ sDriver' = [sDriver EXCEPT ![tObj[t]] = "handle"]
    /\ sessions' = [sessions EXCEPT ![tId[t]] = tObj[t]]
    /\ Finish(t, "ok")
    /\ UNCHANGED <<actVars, rotVars, nSess, sId, sCfg, sQuitReq, sLog, config, nStarted, tOp, tId, tObj, tCall, tOverlap>>

\* A plugin call of initialize rejects: createSession logs and rethrows.
InitRejects(t) ==
    /\ tOp[t] = "create" /\ tPc[t] \in {"useProxy", "pluginFetch", "useFingerprint", "launch"}
    /\ Finish(t, "CreateFailed")
    /\ sDriver' = DriverOnReject(tObj[t])
    /\ UNCHANGED <<actVars, rotVars, sessions, nSess, sId, sCfg, sQuitReq, sLog, config, nStarted, tOp, tId, tObj, tCall, tOverlap>>

\* closeSession(sessionId): the lookup, and session.quit() up to its await
\* of driver.quit().
CloseSessionCall(t, id) ==
    /\ StartTask(t, "close", id)
    /\ IF ~IsRegistered(id)
       THEN /\ Finish(t, "SessionNotFound")
            /\ UNCHANGED <<tObj, sQuitReq>>
       ELSE /\ tObj' = [tObj EXCEPT ![t] = sessions[id]]
            /\ sQuitReq' = [sQuitReq EXCEPT ![sessions[id]] = IF sDriver[sessions[id]] = "null" THEN @ ELSE @ + 1]
            /\ tPc' = [tPc EXCEPT ![t] = "quitting"]
            /\ tOut' = tOut
    /\ UNCHANGED <<actVars, rotVars, sessions, nSess, sId, sCfg, sDriver, sLog, config, tCall>>

\* driver.quit() resolves: the entry is deleted.
QuitResolved(t) ==
    /\ tOp[t] = "close" /\ tPc[t] = "quitting"
    /\ sessions' = Deleted(sessions, tId[t])
    /\ Finish(t, "ok")
    /\ UNCHANGED <<actVars, rotVars, nSess, sId, sCfg, sDriver, sQuitReq, sLog, config, nStarted, tOp, tId, tObj, tCall, tOverlap>>

\* driver.quit() rejects: closeSession logs and rethrows.
QuitRejected(t) ==
    /\ tOp[t] = "close" /\ tPc[t] = "quitting"
    /\ sDriver[tObj[t]] # "null"
    /\ Finish(t, "CloseFailed")
    /\ UNCHANGED <<actVars, rotVars, sessions, nSess, sId, sCfg, sDriver, sQuitReq, sLog, config, nStarted, tOp, tId, tObj, tCall, tOverlap>>

\* getSession(sessionId): synchronous.
GetSessionCall(t, id) ==
    /\ StartTask(t, "get", id)
    /\ Finish(t, GetSession(sessions, id))
    /\ tObj' = [tObj EXCEPT ![t] = sessions[id]]
    /\ UNCHANGED <<actVars, rotVars, sessions, nSess, sId, sCfg, sDriver, sQuitReq, sLog, config, tCall>>

\* The stores the sessions draw on: the proxy file is missing or holds a
\* bare and an authenticated proxy; the table is empty or holds two rows.
SessionProxies == <<<<"a">>, <<"u", ":", "p", "@", "b">>>>

InitSessions ==
    /\ InitCalls
    /\ InitManager
    /\ NoActions
    /\ proxyFileExists \in BOOLEAN
    /\ proxyFile = (IF proxyFileExists THEN FormatProxies(SessionProxies) ELSE <<>>)
    /\ pool0 = PersistedPool
    /\ InitFingerprints
    /\ fpTable \in {<<>>, <<[value |-> JsonStringify(FpNames[1]), usedAt |-> 0], [value |-> JsonStringify(FpNames[2]), usedAt |-> 1]>>}

NextSessions ==
    \/ \E t \in Tasks, id \in Ids, k \in Configs : CreateSessionCall(t, id, k)
    \/ \E t \in Tasks : ProfileResolved(t)
    \/ \E t \in Tasks : ProxyRotated(t)
    \/ \E t \in Tasks : UseProxyResolved(t)
    \/ \E t \in Tasks : PluginFetchResolved(t)
    \/ \E t \in Tasks : FingerprintFetched(t)
    \/ \E t \in Tasks : UseFingerprintResolved(t)
    \/ \E t \in Tasks : LaunchResolved(t)
    \/ \E t \in Tasks : InitRejects(t)
    \/ \E t \in Tasks, id \in Ids : CloseSessionCall(t, id)
    \/ \E t \in Tasks : QuitResolved(t)
    \/ \E t \in Tasks : QuitRejected(t)
    \/ \E t \in Tasks, id \in Ids : GetSessionCall(t, id)
    \/ \E c \in Calls : EnsureFound(c)
    \/ \E c \in Calls : EnsureMissing(c)
    \/ \E c \in Calls : EnsureCreate(c)
    \/ \E c \in Calls : ReadProxies(c)
    \/ \E c \in Calls : WriteProxies(c)
    \/ \E c \in Calls : ProxyIoError(c)
    \/ \E c \in Calls : FpOpen(c)
    \/ \E c \in Calls : FpSelect(c)
    \/ \E c \in Calls : FpUpdate(c)
    \/ \E c \in Calls : FpDbError(c)

SpecSessions == InitSessions /\ [][NextSessions]_vars

(***************************************************************************)
(* SessionActions on a launched Session, one action per await.  Calls are  *)
(* made one after the other.  The driver, the element and the timers are   *)
(* the environment: a driver call resolves or rejects, a delay elapses.    *)
(***************************************************************************)
ActionOps == {"navigate", "getElement", "getElements", "click", "emulateClick", "input", "emulateInput", "selectOption"}

\* The operations that begin with getElement or are it.
Locating == ActionOps \ {"navigate"}

\* selectorType arguments: the three supported ones, one in capitals, one
\* unknown, and one that names a property every object inherits.
SelectorTypes == {"xpath", "css", "id", "XPATH", "xml", "constructor"}

\* selectorType.toLowerCase()
ToLowerCase(type) == IF type = "XPATH" THEN "xpath" ELSE type

\* selectorMap[key] of the object literal {css, id, xpath}: its own
\* properties, and those it inherits from Object.prototype.
SelectorMap(key) ==
    IF key \in {"css", "id", "xpath"} THEN "By"
    ELSE IF key = "constructor" THEN "Object"
    ELSE "undefined"

\* getSelector(selector, selectorType): throws when the looked-up function
\* is falsy; otherwise returns what the function returns, a locator from
\* By.css, By.id or By.xpath, a String object from Object.
GetSelector(type) ==
    LET selectorFunction == SelectorMap(ToLowerCase(type))
    IN IF selectorFunction = "undefined" THEN "Unsupported"
       ELSE IF selectorFunction = "By" THEN "locator"
       ELSE "notLocator"

\* The keys and values the calls are made with.
KeysArgs == {<<"a">>, <<"a", "b">>}

\* The options of the select element.
Options == <<[value |-> "v1", text |-> "L1"], [value |-> "v2", text |-> "L2"]>>

ValueArgs == {<<"v1">>, <<"L2">>, <<"zz">>}

\* The arguments an operation takes besides the selector: keys and clear.
ActionArgs(op) ==
    IF op = "input" THEN KeysArgs \X BOOLEAN
    ELSE IF op = "emulateInput" THEN KeysArgs \X {FALSE}
    ELSE IF op = "selectOption" THEN ValueArgs \X {FALSE}
    ELSE {<<<<>>, FALSE>>}

\* The script of selectOption: select.value = value selects the option of
\* that value, or none; if the value did not take, the first option whose
\* value or text equals it is selected.
SelectScript(value) ==
    LET direct == IF \E i \in 1..Len(Options) : Options[i].value = value THEN value ELSE ""
        found == {i \in 1..Len(Options) : Options[i].value = value \/ Options[i].text = value}
    IN IF direct = value THEN direct
       ELSE IF found # {} THEN Options[CHOOSE i \in found : \A j \in found : i <= j].value
       ELSE direct

argVars == <<aOp, aType, aKeys, aClear, nActions, field0>>

navVars == <<aStops, aTimedOut, aLoadFailed, page>>

\* A caller makes a SessionActions call; its locals start afresh.
StartAction(op, type, keys, clear) ==
    /\ aPc \in {"idle", "done"}
    /\ nActions < NumActionCalls
    /\ nActions' = nActions + 1
    /\ aOp' = op
    /\ aType' = type
    /\ aKeys' = keys
    /\ aClear' = clear
    /\ aAttempts' = 0
    /\ aSent' = 0
    /\ aClicks' = 0
    /\ aStops' = 0
    /\ aTimedOut' = FALSE
    /\ aLoadFailed' = FALSE
    /\ field0' = field

\* The call returns or raises.
Return(out) == aPc' = "done" /\ aOut' = out

\* A mutated loop test that allows one attempt more.
MayRetryOnceMore(op, attempts) == attempts <= (IF op = "input" THEN InputAttempts ELSE IF op = "click" THEN ClickAttempts ELSE SelectAttempts)

\* while (attempts < 5), while (attempts < 10)
MayRetry(op, attempts) == attempts < (IF op = "input" THEN InputAttempts ELSE IF op = "click" THEN ClickAttempts ELSE SelectAttempts)

\* A mutated clear that leaves the content in place.
ClearedNot(content) == content

\* element.clear()
Cleared(content) == <<>>

\* A mutated navigate without the catch.
CaughtNever(pc) == FALSE

\* The try block of navigate covers the race.
Caught(pc) == pc = "race"

\* navigate(url, timeout): driver.get is requested and the timer set.
NavigateCall ==
    /\ StartAction("navigate", "", <<>>, FALSE)
    /\ aPc' = "race"
    /\ aOut' = "pending"
    /\ aWaits' = 0
    /\ aDriverUsed' = TRUE
    /\ page' = "loading"
    /\ UNCHANGED <<rotVars, sesVars, field, selected>>

\* driver.get resolves first: the settle delay is awaited.
PageLoaded ==
    /\ aOp = "navigate" /\ aPc = "race"
    /\ page' = "loaded"
    /\ aPc' = "settle"
    /\ UNCHANGED <<rotVars, sesVars, argVars, aOut, aAttempts, aSent, aWaits, aDriverUsed, aClicks, aStops, aTimedOut, aLoadFailed, field, selected>>

\* What the catch of navigate does with a rejected race: window.stop().
StopLoading ==
    IF Caught(aPc)
    THEN /\ aPc' = "stop"
         /\ aOut' = aOut
         /\ aStops' = aStops + 1
         /\ aDriverUsed' = TRUE
    ELSE /\ Return(IF aTimedOut' THEN "Timeout" ELSE "DriverError")
         /\ UNCHANGED <<aStops, aDriverUsed>>

\* The timer fires first: the race rejects with 'Page load timed out.'
TimerExpires ==
    /\ aOp = "navigate" /\ aPc = "race"
    /\ aTimedOut' = TRUE
    /\ StopLoading
    /\ UNCHANGED <<rotVars, sesVars, argVars, aAttempts, aSent, aWaits, aClicks, aLoadFailed, page, field, selected>>

\* driver.get rejects first: the race rejects with the driver's error.
PageLoadFails ==
    /\ aOp = "navigate" /\ aPc = "race"
    /\ aLoadFailed' = TRUE
    /\ StopLoading
    /\ UNCHANGED <<rotVars, sesVars, argVars, aAttempts, aSent, aWaits, aClicks, aTimedOut, page, field, selected>>

\* window.stop() resolves: the load is aborted, the settle delay awaited.
StopResolved ==
    /\ aOp = "navigate" /\ aPc = "stop"
    /\ page' = "aborted"
    /\ aPc' = "settle"
    /\ UNCHANGED <<rotVars, sesVars, argVars, aOut, aAttempts, aSent, aWaits, aDriverUsed, aClicks, aStops, aTimedOut, aLoadFailed, field, selected>>

\* window.stop() rejects, in the catch block: navigate raises it.
StopRejected ==
    /\ aOp = "navigate" /\ aPc = "stop"
    /\ Return("DriverError")
    /\ UNCHANGED <<rotVars, sesVars, argVars, navVars, aAttempts, aSent, aWaits, aDriverUsed, aClicks, field, selected>>

\* getElement / getElements, or an operation that starts with getElement:
\* getSelector runs at once; an unsupported type throws; a result that is
\* no locator makes until.elementLocated throw; otherwise driver.wait is
\* requested.
LocateCall(op, type, keys, clear) ==
    /\ StartAction(op, type, keys, clear)
    /\ IF GetSelector(type) = "locator"
       THEN /\ aPc' = "wait"
            /\ aOut' = "pending"
            /\ aWaits' = 1
            /\ aDriverUsed' = TRUE
       ELSE /\ Return(IF GetSelector(type) = "Unsupported" THEN "UnsupportedSelector" ELSE "InvalidLocator")
            /\ aWaits' = 0
            /\ aDriverUsed' = FALSE
    /\ UNCHANGED <<rotVars, sesVars, page, field, selected>>

\* driver.wait resolves: the delay of getElement is awaited.
ElementLocated ==
    /\ aOp \in Locating /\ aPc = "wait"
    /\ aPc' = "located"
    /\ UNCHANGED <<rotVars, sesVars, argVars, navVars, aOut, aAttempts, aSent, aWaits, aDriverUsed, aClicks, field, selected>>

\* driver.wait rejects (timeout): the operation raises it.
ElementNotFound ==
    /\ aOp \in Locating /\ aPc = "wait"
    /\ Return("ElementNotFound")
    /\ UNCHANGED <<rotVars, sesVars, argVars, navVars, aAttempts, aSent, aWaits, aDriverUsed, aClicks, field, selected>>

\* input: the characters from the k-th on are sent, one sendKeys at a time.
SendFrom(k) ==
    /\ aSent' = k
    /\ IF k < Len(aKeys)
       THEN aPc' = "send" /\ aDriverUsed' = TRUE
       ELSE aPc' = "settle" /\ aDriverUsed' = aDriverUsed

\* One pass of a retry loop begins: click awaits its delay, input clears
\* the field or sends the first character, selectOption runs its script.
BeginAttempt ==
    IF aOp = "click"
    THEN aPc' = "clickDelay" /\ UNCHANGED <<aSent, aDriverUsed>>
    ELSE IF aOp = "input"
         THEN IF aClear
              THEN aPc' = "clear" /\ aSent' = 0 /\ aDriverUsed' = TRUE
              ELSE SendFrom(0)
         ELSE aPc' = "script" /\ aSent' = aSent /\ aDriverUsed' = TRUE

\* The delay of getElement elapses: getElement returns the element, and
\* the operation goes on to its first await.
LocateReturns ==
    /\ aOp \in Locating /\ aPc = "located"
    /\ IF aOp \in {"getElement", "getElements"}
       THEN Return("ok") /\ UNCHANGED <<aSent, aDriverUsed>>
       ELSE aOut' = aOut /\ BeginAttempt
    /\ UNCHANGED <<rotVars, sesVars, argVars, navVars, aAttempts, aWaits, aClicks, field, selected>>

\* click: the delay before an attempt elapses, element.click() is requested.
ClickDelayElapsed ==
    /\ aOp = "click" /\ aPc = "clickDelay"
    /\ aClicks' = aClicks + 1
    /\ aDriverUsed' = TRUE
    /\ aPc' = "native"
    /\ UNCHANGED <<rotVars, sesVars, argVars, navVars, aOut, aAttempts, aSent, aWaits, field, selected>>

\* element.click() resolves: the settle delay is awaited.
ClickResolved ==
    /\ aOp = "click" /\ aPc = "native"
    /\ aPc' = "settle"
    /\ UNCHANGED <<rotVars, sesVars, argVars, navVars, aOut, aAttempts, aSent, aWaits, aDriverUsed, aClicks, field, selected>>

\* A mutated catch block that does not count the attempt.
AttemptFailedUncounted ==
    /\ aAttempts' = aAttempts
    /\ aPc' = "retryDelay"

\* An attempt fails: attempts++, and the retry delay is awaited.
AttemptFailed ==
    /\ aAttempts' = aAttempts + 1
    /\ aPc' = "retryDelay"

\* element.click() rejects.
ClickRejected ==
    /\ aOp = "click" /\ aPc = "native"
    /\ AttemptFailed
    /\ UNCHANGED <<rotVars, sesVars, argVars, navVars, aOut, aSent, aWaits, aDriverUsed, aClicks, field, selected>>

\* The retry delay elapses: the loop test; another pass, or the throw
\* after the loop.
RetryDelayElapsed ==
    /\ aOp \in {"click", "input", "selectOption"} /\ aPc = "retryDelay"
    /\ IF MayRetry(aOp, aAttempts)
       THEN aOut' = aOut /\ BeginAttempt
       ELSE Return("InteractionFailed") /\ UNCHANGED <<aSent, aDriverUsed>>
    /\ UNCHANGED <<rotVars, sesVars, argVars, navVars, aAttempts, aWaits, aClicks, field, selected>>

\* element.clear() resolves: the field is empty, a delay is awaited.
ClearResolved ==
    /\ aOp = "input" /\ aPc = "clear"
    /\ field' = Cleared(field)
    /\ aPc' = "clearDelay"
    /\ UNCHANGED <<rotVars, sesVars, argVars, navVars, aOut, aAttempts, aSent, aWaits, aDriverUsed, aClicks, selected>>

\* element.clear() rejects.
ClearRejected ==
    /\ aOp = "input" /\ aPc = "clear"
    /\ AttemptFailed
    /\ UNCHANGED <<rotVars, sesVars, argVars, navVars, aOut, aSent, aWaits, aDriverUsed, aClicks, field, selected>>

\* The delay after clear elapses: the first character is sent.
ClearDelayElapsed ==
    /\ aOp = "input" /\ aPc = "clearDelay"
    /\ SendFrom(0)
    /\ UNCHANGED <<rotVars, sesVars, argVars, navVars, aOut, aAttempts, aWaits, aClicks, field, selected>>

\* element.sendKeys(char) resolves: the character is in the field.
SendResolved ==
    /\ aOp = "input" /\ aPc = "send"
    /\ Len(field) < MaxField
    /\ field' = Append(field, aKeys[aSent + 1])
    /\ aSent' = aSent + 1
    /\ aPc' = "charDelay"
    /\ UNCHANGED <<rotVars, sesVars, argVars, navVars, aOut, aAttempts, aWaits, aDriverUsed, aClicks, selected>>

\* element.sendKeys(char) rejects.
SendRejected ==
    /\ aOp = "input" /\ aPc = "send"
    /\ AttemptFailed
    /\ UNCHANGED <<rotVars, sesVars, argVars, navVars, aOut, aSent, aWaits, aDriverUsed, aClicks, field, selected>>

\* The delay between characters elapses: the next character is sent, or
\* after the last one the settle delay is awaited.
CharDelayElapsed ==
    /\ aOp = "input" /\ aPc = "charDelay"
    /\ SendFrom(aSent)
    /\ UNCHANGED <<rotVars, sesVars, argVars, navVars, aOut, aAttempts, aWaits, aClicks, field, selected>>

\* driver.executeScript resolves: emulateClick returns; emulateInput has
\* set the text and selectOption the option, and await the settle delay.
ScriptResolved ==
    /\ aOp \in {"emulateClick", "emulateInput", "selectOption"} /\ aPc = "script"
    /\ IF aOp = "emulateClick" THEN Return("ok") ELSE aPc' = "settle" /\ aOut' = aOut
    /\ field' = IF aOp = "emulateInput" THEN aKeys ELSE field
    /\ selected' = IF aOp = "selectOption" THEN SelectScript(aKeys[1]) ELSE selected
    /\ UNCHANGED <<rotVars, sesVars, argVars, navVars, aAttempts, aSent, aWaits, aDriverUsed, aClicks>>

\* driver.executeScript rejects: selectOption counts a failed attempt,
\* emulateClick and emulateInput raise.
ScriptRejected ==
    /\ aOp \in {"emulateClick", "emulateInput", "selectOption"} /\ aPc = "script"
    /\ IF aOp = "selectOption"
       THEN AttemptFailed /\ aOut' = aOut
       ELSE Return("DriverError") /\ aAttempts' = aAttempts
    /\ UNCHANGED <<rotVars, sesVars, argVars, navVars, aSent, aWaits, aDriverUsed, aClicks, field, selected>>

\* The last delay of an operation elapses: it returns.
SettleElapsed ==
    /\ aPc = "settle"
    /\ Return("ok")
    /\ UNCHANGED <<rotVars, sesVars, argVars, navVars, aAttempts, aSent, aWaits, aDriverUsed, aClicks, field, selected>>

\* The page the actions run on: the input element empty or holding text.
InitActions ==
    /\ InitCalls /\ OneProxyFile /\ OneFingerprintTable /\ InitManager
    /\ field \in {<<>>, <<"x">>, <<"a", "b">>}
    /\ InitActionCalls

NextActions ==
    \/ NavigateCall
    \/ PageLoaded
    \/ TimerExpires
    \/ PageLoadFails
    \/ StopResolved
    \/ StopRejected
    \/ \E op \in Locating, type \in SelectorTypes : \E a \in ActionArgs(op) : LocateCall(op, type, a[1], a[2])
    \/ ElementLocated
    \/ ElementNotFound
    \/ LocateReturns
    \/ ClickDelayElapsed
    \/ ClickResolved
    \/ ClickRejected
    \/ RetryDelayElapsed
    \/ ClearResolved
    \/ ClearRejected
    \/ ClearDelayElapsed
    \/ SendResolved
    \/ SendRejected
    \/ CharDelayElapsed
    \/ ScriptResolved
    \/ ScriptRejected
    \/ SettleElapsed

SpecActions == InitActions /\ [][NextActions]_vars

\* The same, with the event loop doing its work: a timer that is due
\* fires, a driver call that was requested resolves or rejects, and the
\* continuation of the awaiting operation runs.
SpecActionsFair == SpecActions /\ WF_vars(NextActions)

(***************************************************************************)
(* Claims about proxy rotation, checked under SpecProxy.                   *)
(***************************************************************************)
\* The call settled with a proxy (not null, not a rejection, not pending).
GotProxy(c) == cKind[c] = "proxy" /\ cPc[c] = "done" /\ cResult[c] \notin {Pending, Null, Thrown}

\* Call c2 was issued while call c1 was still in flight.
Overlap(c1, c2) == c1 \in cOverlap[c2]

\* pool0 after k rotations, by index arithmetic.
RotatedBy(k) == [i \in 1..Len(pool0) |-> pool0[((i - 1 + k) % Len(pool0)) + 1]]

\* C1: with a pool of at least two distinct proxies (and no more calls than
\* proxies, so that no element has to come round again), any two calls that
\* overlap in time return different proxies, whichever manager each was
\* made on.
C1_OverlappingRotationsDiffer ==
    (Len(pool0) >= 2 /\ IsDistinct(pool0) /\ nIssued <= Len(pool0)) =>
        \A c1, c2 \in Calls : (Overlap(c1, c2) /\ GotProxy(c1) /\ GotProxy(c2)) => cResult[c1] # cResult[c2]

\* C2: on one ProxyManager the tasks never interleave and are served in
\* the order issued: a call has left the queue only if every call issued
\* earlier on the same manager has settled.
C2_SerializedFifo ==
    \A c1, c2 \in Calls :
        (c1 < c2 /\ cKind[c1] = "proxy" /\ cKind[c2] = "proxy" /\ cMgr[c1] = cMgr[c2] /\ cPc[c2] \notin {"idle", "queued"})
            => cPc[c1] = "done"

\* Reached: three calls on one manager, the later two issued while the
\* first was in flight, all served and settled with a proxy.
C2_Witness ==
    /\ \A c \in 1..3 : GotProxy(c) /\ cMgr[c] = 1
    /\ Overlap(1, 2) /\ Overlap(1, 3) /\ Overlap(2, 3)

\* C3: for a pool of N >= 1 distinct proxies, calls made one after the
\* other (none overlapping, none failing) return the head of the current
\* pool each time: the k-th call returns the k-th original element (modulo
\* N), while it waits for its write the array it holds is the pool rotated
\* k times, and once exactly N calls have completed the persisted pool is
\* the starting pool again.
C3_RoundRobin ==
    (Len(pool0) >= 1 /\ IsDistinct(pool0) /\ \A c \in 1..nIssued : cOverlap[c] = {} /\ cResult[c] # Thrown) =>
        /\ \A c \in 1..nIssued : cPc[c] = "done" => cResult[c] = pool0[((c - 1) % Len(pool0)) + 1]
        /\ \A c \in 1..nIssued : cPc[c] = "write" => cLocal[c] = RotatedBy(c) /\ cRot[c] = pool0[((c - 1) % Len(pool0)) + 1]
        /\ (nIssued = Len(pool0) /\ cPc[nIssued] = "done") => PersistedPool = pool0

\* Reached: a pool of three, three consecutive calls completed.
C3_Witness ==
    /\ Len(pool0) = 3 /\ nIssued = 3
    /\ \A c \in 1..3 : GotProxy(c) /\ cOverlap[c] = {}
    /\ PersistedPool = pool0

PersistEnds(c) == cKind[c] = "proxy" /\ cPc[c] = "write" /\ cPc'[c] = "done"

\* No other call was in flight at any time while call c was.
Alone(c) == \A d \in Calls \ {c} : ~Overlap(c, d) /\ ~Overlap(d, c)

GotFingerprint(c) == cKind[c] = "fp" /\ cPc[c] = "done" /\ cResult[c] \notin {Pending, Null, Thrown}

\* This step is the SELECT of call c returning a row.
FetchSelects(c) == cKind[c] = "fp" /\ cPc[c] = "select" /\ cPc'[c] = "update"

\* This step is call c returning a fingerprint to its caller.
FetchReturns(c) == cKind[c] = "fp" /\ cPc[c] = "update" /\ cPc'[c] = "done" /\ cResult'[c] # Thrown

\* C5: fetchAndUpdateFingerprint returns the value of a row whose usedAt is
\* minimal among the rows of the table when it selects, and when it
\* returns, that row's usedAt is strictly greater than it was.
C5_OldestFirstStrictlyLater ==
    [][\A c \in Calls :
        /\ FetchSelects(c) =>
              /\ fpTable[cRow'[c]].value = cSel'[c]
              /\ \A j \in 1..Len(fpTable) : fpTable[cRow'[c]].usedAt <= fpTable[j].usedAt
        /\ FetchReturns(c) =>
              /\ cResult'[c] = JsonParse(cSel[c])
              /\ fpTable'[cRow[c]].usedAt > cBefore[c]]_vars

\* C6: with at least two rows (and no more calls than rows), two fetches
\* that overlap in time never return the same row, whichever manager each
\* was made on.
C6_OverlappingFetchesDiffer ==
    (Len(fp0) >= 2 /\ nIssued <= Len(fp0)) =>
        \A c1, c2 \in Calls : (Overlap(c1, c2) /\ GotFingerprint(c1) /\ GotFingerprint(c2)) => cRow[c1] # cRow[c2]

\* This step is the INSERT of addFingerprint being applied to the table.
AddWrites == addPc = "insert" /\ Len(fpTable') = Len(fpTable) + 1

\* C21: the INSERT of addFingerprint is never applied while a fetch is
\* between its SELECT and its UPDATE.
C21_AddSerializedWithFetch ==
    [][AddWrites => \A c \in Calls : ~(cKind[c] = "fp" /\ cPc[c] = "update")]_vars

\* This step is call c raising to its caller.
FetchRaises(c) == cKind[c] = "fp" /\ cPc[c] # "done" /\ cPc'[c] = "done" /\ cResult'[c] = Thrown

\* C30: a fetch that raises has changed no row's usedAt: the only step of
\* a fetch that writes is its last, so the step in which it raises leaves
\* every row as it was.
C30_FailedFetchLeavesStamps ==
    [][\A c \in Calls : FetchRaises(c) =>
          /\ Len(fpTable') = Len(fpTable)
          /\ \A i \in 1..Len(fpTable) : fpTable'[i].usedAt = fpTable[i].usedAt]_vars

(***************************************************************************)
(* Claims about both rotators, under SpecRotatorsFair.                     *)
(***************************************************************************)
\* In this step call c settles.
Settles(c) == cPc[c] \notin {"idle", "done"} /\ cPc'[c] = "done"

\* C31: every readAndRotateProxy or fetchAndUpdateFingerprint call that
\* was made, running or waiting in its queue, eventually settles, with a
\* value, null or a rejection (a settled call stays settled, so from some
\* point on no call is running or waiting any more); and the step in
\* which a call settles, rejections included, releases its queue: the
\* call no longer holds the slot, and the oldest waiting task, if any, is
\* started in that step.
C31_QueuedCallsComplete ==
    /\ <>[](\A c \in Calls : cPc[c] \in {"idle", "done"} /\ (cPc[c] = "done" => cResult[c] # Pending))
    /\ [][\A c \in Calls : Settles(c) =>
            LET q == <<cMgr[c], cKind[c]>>
            IN /\ pqRunning'[q] # c
               /\ pqQueue[q] # <<>> =>
                     /\ pqRunning'[q] = Head(pqQueue[q])
                     /\ cPc'[Head(pqQueue[q])] = FirstPc(cKind[c])
                     /\ pqQueue'[q] = Tail(pqQueue[q])]_vars

\* Reached: a call rejected while another waited behind it in the same
\* queue, and the one that waited has run and returned a value.
C31_Witness ==
    \E c1, c2 \in Calls :
        /\ cKind[c1] = cKind[c2] /\ cMgr[c1] = cMgr[c2] /\ Overlap(c1, c2)
        /\ cPc[c1] = "done" /\ cResult[c1] = Thrown
        /\ cPc[c2] = "done" /\ cResult[c2] \notin {Pending, Null, Thrown}

(***************************************************************************)
(* Claims about the session registry, under SpecSessions.                  *)
(***************************************************************************)
\* Call t is made in this step, of operation op.
Starts(t, op) == tPc[t] = "idle" /\ tPc'[t] # "idle" /\ tOp'[t] = op

\* Call t returns or raises in this step.
Ends(t, op) == tOp[t] = op /\ tPc[t] \notin {"idle", "done"} /\ tPc'[t] = "done"

\* Everything a createSession or closeSession could touch: the registry,
\* the Sessions and their drivers, the stores and queues of the rotators,
\* the configuration objects.
Effects == <<rotVars, sessions, nSess, sId, sCfg, sDriver, sQuitReq, config>>

\* Two calls overlapped in time.
TasksOverlap(t, u) == t \in tOverlap[u] \/ u \in tOverlap[t]

\* C7: a createSession for an id that is registered (by a createSession
\* that completed) raises SessionAlreadyExists in the very step of the
\* call, with no effect: no Session is constructed, no rotator call is
\* issued, no launch is requested, and the registry, with the original
\* entry, is unchanged.
C7_DuplicateCreateRejected ==
    [][\A t \in Tasks :
        (Starts(t, "create") /\ sessions[tId'[t]] # 0)
            => /\ tPc'[t] = "done"
               /\ tOut'[t] = "SessionAlreadyExists"
               /\ UNCHANGED Effects
               /\ \E u \in Tasks : /\ tOp[u] = "create" /\ tOut[u] = "ok"
                                   /\ tId[u] = tId'[t]
                                   /\ sessions'[tId'[t]] = tObj[u]]_vars

\* A second createSession for a registered id has been rejected and the
\* entry is the first call's.
C7_Witness ==
    \E t, u \in Tasks :
        /\ u < t
        /\ tOp[u] = "create" /\ tOut[u] = "ok"
        /\ tOp[t] = "create" /\ tOut[t] = "SessionAlreadyExists"
        /\ tId[t] = tId[u]
        /\ sessions[tId[t]] = tObj[u]

\* C8: a createSession whose initialization fails raises and leaves
\* nothing registered: the step in which it raises does not change the
\* registry, no entry ever refers to its Session, and its id is not
\* registered afterwards (the only other way the id can be registered then
\* is a createSession of the same id that overlapped this one), so the
\* check of a later createSession with that id passes.
C8_FailedCreateNotRegistered ==
    [][\A t \in Tasks :
        (Ends(t, "create") /\ tOut'[t] = "CreateFailed")
            => /\ sessions' = sessions
               /\ \A id \in Ids : sessions'[id] # tObj[t]
               /\ (\A u \in Tasks \ {t} :
                      ~(tOp[u] = "create" /\ tId[u] = tId[t] /\ TasksOverlap(t, u)))
                    => (sessions'[tId[t]] = 0 /\ ~IsRegistered(tId[t])')]_vars

\* A createSession has failed in initialization and a later one with the
\* same id, not overlapping it, has passed the check and built its Session.
C8_Witness ==
    \E t, u \in Tasks :
        /\ t < u
        /\ tOp[t] = "create" /\ tOut[t] = "CreateFailed"
        /\ tOp[u] = "create" /\ tId[u] = tId[t]
        /\ ~TasksOverlap(t, u)
        /\ tObj[u] # 0 /\ tObj[u] # tObj[t]

\* C9: when closeSession(id) on a registered id returns or raises, the
\* entry is gone and getSession(id) raises SessionNotFound, also when
\* Session.quit raised.
C9_CloseAlwaysDeregisters ==
    [][\A t \in Tasks :
        Ends(t, "close") => GetSession(sessions', tId[t]) = "SessionNotFound"]_vars

\* C10: closeSession on an id that is not registered raises
\* SessionNotFound in the step of the call and changes nothing (registry,
\* Sessions, drivers and their quit requests); and when a closeSession
\* whose quit succeeded returns, the id is not registered, so that
\* getSession on an unregistered id raises SessionNotFound.
C10_UnknownCloseAndClosedLookup ==
    [][/\ \A t \in Tasks :
            (Starts(t, "close") /\ sessions[tId'[t]] = 0)
                => /\ tPc'[t] = "done"
                   /\ tOut'[t] = "SessionNotFound"
                   /\ UNCHANGED Effects
       /\ \A t \in Tasks :
            (Ends(t, "close") /\ tOut'[t] = "ok")
                => /\ sessions'[tId[t]] = 0
                   /\ GetSession(sessions', tId[t]) = "SessionNotFound"
       /\ \A t \in Tasks :
            (Starts(t, "get") /\ sessions[tId'[t]] = 0)
                => tOut'[t] = "SessionNotFound" /\ UNCHANGED Effects]_vars

\* A closeSession has succeeded on an id, and a later closeSession and a
\* later getSession on that id, now unknown, have raised SessionNotFound.
C10_Witness ==
    \E t, u \in Tasks :
        /\ t < u
        /\ tOp[t] = "close" /\ tOut[t] = "ok"
        /\ tOp[u] \in {"close", "get"} /\ tOut[u] = "SessionNotFound"
        /\ tId[u] = tId[t]
        /\ sessions[tId[t]] = 0

(***************************************************************************)
(* Claims about Session.initialize and Session.quit, under SpecSessions.   *)
(***************************************************************************)
\* The Session's log holds the event.
InLog(o, e) == \E i \in 1..Len(sLog[o]) : sLog[o][i] = e

\* The createSession call t awaited rotator call of the given kind, and
\* has taken its result.
TookResult(t, kind) ==
    /\ tOp[t] = "create" /\ tCall[t] # 0
    /\ cKind[tCall[t]] = kind /\ cPc[tCall[t]] = "done"
    /\ tPc[t] \notin {"rotating", "fetching"}

\* C11: initialize is all-or-nothing for the driver handle: the driver of
\* a Session whose initialization failed or is still running is null, and
\* a driver is non-null only for a Session whose launch was requested and
\* whose createSession returned.
C11_DriverOnlyAfterLaunch ==
    /\ \A t \in Tasks :
          (tOp[t] = "create" /\ tObj[t] # 0 /\ tOut[t] # "ok") => sDriver[tObj[t]] = "null"
    /\ \A o \in Managers :
          sDriver[o] # "null"
              => /\ InLog(o, "launch")
                 /\ \E t \in Tasks : tOp[t] = "create" /\ tObj[t] = o /\ tOut[t] = "ok"

\* One createSession has failed in the launch call, its driver null,
\* and another has launched.
C11_Witness ==
    \E t, u \in Tasks :
        /\ tOp[t] = "create" /\ tOut[t] = "CreateFailed"
        /\ InLog(tObj[t], "launch") /\ sDriver[tObj[t]] = "null"
        /\ tOp[u] = "create" /\ tOut[u] = "ok" /\ sDriver[tObj[u]] = "handle"

C13_EmptyFingerprintPoolFailsInit ==
    \A t \in Tasks :
        (TookResult(t, "fp") /\ cResult[tCall[t]] = Null)
            => /\ tOut[t] = "CreateFailed"
               /\ ~InLog(tObj[t], "useFingerprint")
               /\ ~InLog(tObj[t], "launch")

\* C18: driver.quit() is requested at most once for a launched handle and
\* never for a Session that was not launched.
C18_QuitRequestedAtMostOnce ==
    \A o \in Managers :
        /\ sQuitReq[o] <= 1
        /\ sQuitReq[o] > 0 => sDriver[o] # "null"

\* C19: the driver is non-null only while the Session is Ready: null
\* until launch has returned, and null again once a quit has returned.
C19_DriverNullOutsideReady ==
    /\ \A t \in Tasks :
          (tOp[t] = "create" /\ tObj[t] # 0 /\ tOut[t] # "ok") => sDriver[tObj[t]] = "null"
    /\ \A t \in Tasks :
          (tOp[t] = "close" /\ tOut[t] = "ok") => sDriver[tObj[t]] = "null"

\* The place of an event in the order the options are to be composed in.
Rank(e) ==
    CASE e = "loggingPrefs" -> 1
      [] e = "headless" -> 2
      [] e \in {"useProxy", "proxyServer"} -> 3
      [] e \in {"pluginFetch", "useFingerprint"} -> 4
      [] e = "userDataDir" -> 5
      [] e = "launch" -> 6

\* C20: initialize composes in the order logging suppression, headless,
\* proxy, fingerprint, user-data path, and then requests one launch.
C20_FixedCompositionOrder ==
    \A o \in Managers :
        /\ \A i, j \in 1..Len(sLog[o]) : i < j => Rank(sLog[o][i]) <= Rank(sLog[o][j])
        /\ InLog(o, "launch") => (sLog[o][1] = "loggingPrefs" /\ InLog(o, "userDataDir"))
        /\ Cardinality({i \in 1..Len(sLog[o]) : sLog[o][i] = "launch"}) <= 1

\* The createSession call that constructed Session o is still running.
Initializing(o) == \E t \in Tasks : tOp[t] = "create" /\ tObj[t] = o /\ tPc[t] # "done"

\* The Session has called useProxy or useFingerprint on the plugin.
UsedPlugin(o) == InLog(o, "useProxy") \/ InLog(o, "useFingerprint")

\* In this step Session o calls useProxy or useFingerprint on the plugin.
UsesPlugin(o) ==
    /\ Len(sLog'[o]) > Len(sLog[o])
    /\ \E i \in (Len(sLog[o]) + 1)..Len(sLog'[o]) : sLog'[o][i] \in {"useProxy", "useFingerprint"}

\* C24: the plugin all Sessions share is not given another Session's proxy
\* or fingerprint between a Session's own useProxy/useFingerprint call and
\* its launch call.
C24_PluginNotSharedBeforeLaunch ==
    [][\A o1, o2 \in Managers :
          (o1 # o2 /\ UsesPlugin(o2) /\ UsedPlugin(o1) /\ Initializing(o1)) => InLog(o1, "launch")]_vars

\* The driver handles launched and not asked to quit, the ids registered.
LiveHandles == {o \in Managers : sDriver[o] = "handle" /\ sQuitReq[o] = 0}

Registered == {id \in Ids : sessions[id] # 0}

\* C25: of two createSession calls with one id that overlapped, at most one
\* has succeeded; and once the calls made (createSession calls only) have
\* all returned, there are as many launched handles as registry entries.
C25_OverlappingCreateOneWins ==
    /\ \A t, u \in Tasks :
          (t # u /\ tOp[t] = "create" /\ tOp[u] = "create" /\ tId[t] = tId[u]
                 /\ TasksOverlap(t, u) /\ tOut[t] = "ok")
              => tOut[u] # "ok"
    /\ (\A t \in 1..nStarted : tOp[t] = "create" /\ tPc[t] = "done")
          => Cardinality(LiveHandles) = Cardinality(Registered)

\* C26: a createSession that has returned a session has left the config
\* object it was passed as its caller made it, the 'database' sentinel in
\* its proxy field included.
C26_ConfigLeftUnchanged ==
    \A t \in Tasks :
        (tOp[t] = "create" /\ tOut[t] = "ok")
            => config[sCfg[tObj[t]]] = ConfigShapes[((sCfg[tObj[t]] - 1) % Len(ConfigShapes)) + 1]

C15_ClickAtMostFiveAttempts ==
    aOp = "click"
        => /\ aClicks <= ClickAttempts
           /\ aAttempts <= ClickAttempts
           /\ aPc \in {"native", "settle"} => aClicks = aAttempts + 1
           /\ aPc = "retryDelay" => aClicks = aAttempts
           /\ aOut = "ok" => (aPc = "done" /\ aClicks = aAttempts + 1)
           /\ aOut = "InteractionFailed" => (aClicks = ClickAttempts /\ aAttempts = ClickAttempts)
           /\ (aPc = "done" /\ aClicks > 0) => aOut \in {"ok", "InteractionFailed"}

\* A click has returned successfully on its fifth attempt.
C15_Witness ==
    /\ aOp = "click" /\ aPc = "done" /\ aOut = "ok"
    /\ aAttempts = ClickAttempts - 1 /\ aClicks = ClickAttempts

\* C16: when input with clear = true has returned successfully, the field
\* holds exactly keys, whatever it held before and whatever attempts
\* failed on the way.
C16_ClearedInputIsExact ==
    (aOp = "input" /\ aClear /\ aOut = "ok") => field = aKeys

\* An input with clear = true into a field that held text has returned
\* successfully after failed attempts, the field holding keys.
C16_Witness ==
    /\ aOp = "input" /\ aClear /\ aOut = "ok"
    /\ field0 # <<>> /\ field0 # aKeys
    /\ Len(aKeys) = 2 /\ aAttempts >= 2
    /\ field = aKeys

\* C17: an operation called with a selectorType that is none of css, id
\* and xpath (in whatever capitals) raises the unsupported-type error at
\* once: no wait and no other driver call is made, and nothing is retried.
C17_UnsupportedKindFailsFast ==
    (aOp \in Locating /\ ToLowerCase(aType) \notin {"css", "id", "xpath"})
        => /\ aPc = "done"
           /\ aOut = "UnsupportedSelector"
           /\ aWaits = 0
           /\ ~aDriverUsed
           /\ aAttempts = 0

\* The three operations with a retry loop, and the bound of each loop.
Retrying == aOp \in {"click", "input", "selectOption"}

Cap(op) == IF op = "input" THEN InputAttempts ELSE IF op = "click" THEN ClickAttempts ELSE SelectAttempts

\* The operation is inside its retry loop, or in the delay after it.
InLoop == Retrying /\ aPc \in {"clickDelay", "native", "clear", "clearDelay", "send", "charDelay", "script", "retryDelay", "settle"}

\* C23: click, input and selectOption locate the element once, before
\* the first attempt, and not again; their attempt counter only grows, by
\* one per failed attempt, and never exceeds the cap (5, 10, 5); a call
\* that has located the element ends successfully after fewer than cap
\* failed attempts or raises InteractionFailed after exactly cap; and
\* every such call does end.
C23_BoundedRetry ==
    /\ [](Retrying =>
            /\ aAttempts <= Cap(aOp)
            /\ InLoop => aWaits = 1
            /\ (aPc = "done" /\ aOut \notin {"UnsupportedSelector", "InvalidLocator", "ElementNotFound"})
                  => /\ aWaits = 1
                     /\ \/ aOut = "ok" /\ aAttempts < Cap(aOp)
                        \/ aOut = "InteractionFailed" /\ aAttempts = Cap(aOp))
    /\ [][(Retrying /\ nActions' = nActions)
            => /\ aAttempts' \in {aAttempts, aAttempts + 1}
               /\ aWaits' = aWaits]_vars
    /\ (Retrying /\ aPc # "done") ~> (aPc = "done")

\* An input has raised InteractionFailed after ten failed attempts, and
\* a selectOption could: the element was located once.
C23_Witness ==
    /\ aOp = "input" /\ aPc = "done" /\ aOut = "InteractionFailed"
    /\ aAttempts = InputAttempts /\ aWaits = 1

\* C27: when input with clear = false has returned successfully, the field
\* holds what it held before the call followed by keys, once.
C27_AppendedInputIsExact ==
    (aOp = "input" /\ ~aClear /\ aOut = "ok") => field = field0 \o aKeys

\* The option that is selected has the given value or label.
SelectedMatches(value) ==
    \E i \in 1..Len(Options) :
        Options[i].value = selected /\ (Options[i].value = value \/ Options[i].text = value)

\* C28: when selectOption has returned successfully, the selected option
\* has the requested value as its value or as its label.
C28_SelectSucceedsOnlyOnMatch ==
    (aOp = "selectOption" /\ aOut = "ok") => SelectedMatches(aKeys[1])

\* C29: navigate sends the stop script only when its timer fired first: a
\* load that completed sends none, and neither does a driver.get that
\* rejected before the timer.
C29_StopOnlyOnTimeout ==
    aOp = "navigate"
        => /\ aStops > 0 => aTimedOut
           /\ page = "loaded" => aStops = 0
           /\ aLoadFailed => (aStops = 0 /\ aOut \notin {"ok", "Timeout"})

\* C32: every registry entry refers to a Session that has been launched
\* and whose driver has not been asked to quit, so that getSession never
\* hands out a session that is closing or whose quit failed.
C32_RegistryEntriesAreLive ==
    \A id \in Ids :
        sessions[id] # 0 => (sDriver[sessions[id]] = "handle" /\ sQuitReq[sessions[id]] = 0)

=============================================================================
